---- MODULE Spec2Model ----
(***************************************************************************)
(* Allocating_Qubits_on_QPU_Devices.ipynb: a notebook that builds three    *)
(* circuits, submits each once to a remote QPU through device.run, prints  *)
(* the task status and then the result.  The notebook's cells are the      *)
(* actions; the remote service moves each task through its lifecycle       *)
(* between them.  The outputs the notebook records (connectivity graph,    *)
(* circuit diagrams, compiled programs, measurement counts) are the        *)
(* observations of the external compiler and are transcribed as data.      *)
(***************************************************************************)
EXTENDS Integers, Sequences, FiniteSets, TLC

VARIABLES
    pc,          \* index of the next cell to execute (cells run top to bottom)
    raised,      \* the exception a cell has raised ("" if none): execution stops there
    device,      \* the notebook's `device` variable
    circuit,     \* the notebook's `circuit` variable
    tasks,       \* task handle |-> the remote task behind it
    stdout,      \* task handle |-> what the cells about that task have printed
    runLog       \* the device.run calls made so far, in order

vars == <<pc, raised, device, circuit, tasks, stdout, runLog>>

(***************************************************************************)
(* Bounds of the model.                                                    *)
(***************************************************************************)
\* longest circuit enumerated as an input of device.run in SpecRun
MaxGates == 2

\* qubits the enumerated input circuits act on: 1-2 is a coupler of Aspen-8,
\* 0-1 and 0-2 are not, and 8 is not a qubit of the device at all
QubitPool == {0, 1, 2, 8}

(***************************************************************************)
(* The device: connectivity graph printed by the notebook.  The SDK prints *)
(* qubit labels as strings; the circuit cells use the same labels as       *)
(* integers, and the model keeps integers throughout.                      *)
(***************************************************************************)
Aspen8ConnectivityGraph ==
    0 :> {7} @@ 1 :> {2, 16} @@ 2 :> {1, 3, 15} @@ 3 :> {2, 4} @@
    4 :> {3, 5} @@ 5 :> {4, 6} @@ 6 :> {5, 7} @@ 7 :> {0, 6} @@
    10 :> {11, 17} @@ 11 :> {10, 12, 26} @@ 12 :> {11, 13, 25} @@
    13 :> {12} @@ 15 :> {2, 16} @@ 16 :> {1, 15, 17} @@ 17 :> {10, 16} @@
    20 :> {21, 27} @@ 21 :> {20, 22, 36} @@ 22 :> {21, 23, 35} @@
    23 :> {22, 24} @@ 24 :> {23, 25} @@ 25 :> {12, 24, 26} @@
    26 :> {11, 25, 27} @@ 27 :> {20, 26} @@ 30 :> {31, 37} @@
    31 :> {30, 32} @@ 32 :> {31, 33} @@ 33 :> {32, 34} @@ 34 :> {33, 35} @@
    35 :> {22, 34, 36} @@ 36 :> {21, 35, 37} @@ 37 :> {30, 36}

\* a device whose graph also couples 0 and 2
ConnectivityGraph_chord02 ==
    [Aspen8ConnectivityGraph EXCEPT ![0] = {2, 7}, ![2] = {0, 1, 3, 15}]

\* a device whose coupler 1-2 is missing
ConnectivityGraph_no12 ==
    [Aspen8ConnectivityGraph EXCEPT ![1] = {16}, ![2] = {3, 15}]

\* connectivity_graph = device.properties.paradigm.connectivity.connectivityGraph
ConnectivityGraph == Aspen8ConnectivityGraph

Aspen8 == "Aspen-8"
IonQ == "ionQdevice"

IsNode(q) == q \in DOMAIN ConnectivityGraph
IsEdge(a, b) == IsNode(a) /\ b \in ConnectivityGraph[a]

(***************************************************************************)
(* Circuits: an ordered sequence of gate applications.  Every builder call *)
(* appends one gate and returns the circuit, so calls chain.               *)
(***************************************************************************)
Gate(name, targets, angle) == [name |-> name, targets |-> targets, angle |-> angle]

Circuit == <<>>
h(c, q) == Append(c, Gate("h", <<q>>, ""))
x(c, q) == Append(c, Gate("x", <<q>>, ""))
rz(c, q, angle) == Append(c, Gate("rz", <<q>>, angle))
cnot(c, control, target) == Append(c, Gate("cnot", <<control, target>>, ""))

GateQubits(g) == {g.targets[i] : i \in DOMAIN g.targets}
CircuitQubits(c) == UNION {GateQubits(c[k]) : k \in DOMAIN c}
TwoQubitPairs(c) == {c[k].targets : k \in {j \in DOMAIN c : Len(c[j].targets) = 2}}

\* the GHZ cell with its two cnot calls in the other order
GHZCircuit_swapped == cnot(cnot(h(Circuit, 0), 0, 4), 0, 2)

\* the three circuits of the notebook, as its cells build them
GHZCircuit == cnot(cnot(h(Circuit, 0), 0, 2), 0, 4)
ManualCircuit == x(cnot(rz(Circuit, 0, "pi/2"), 1, 2), 3)
IonQCircuit == rz(cnot(h(Circuit, 0), 0, 2), 1, "1.2")

Shots == 100

(***************************************************************************)
(* Recorded output: the circuit diagrams printed by print(circuit).  Each  *)
(* line is its label (the text before " : ") and its body, one character   *)
(* per column.                                                             *)
(***************************************************************************)
GHZDiagram == <<
      [label |-> "T", body |-> <<"|", "0", "|", "1", "|", "2", "|">>],
      [label |-> "", body |-> <<" ", " ", " ", " ", " ", " ", " ">>],
      [label |-> "q0", body |-> <<"-", "H", "-", "C", "-", "C", "-">>],
      [label |-> "", body |-> <<" ", " ", " ", "|", " ", "|", " ">>],
      [label |-> "q2", body |-> <<"-", "-", "-", "X", "-", "|", "-">>],
      [label |-> "", body |-> <<" ", " ", " ", " ", " ", "|", " ">>],
      [label |-> "q4", body |-> <<"-", "-", "-", "-", "-", "X", "-">>],
      [label |-> "", body |-> <<>>],
      [label |-> "T", body |-> <<"|", "0", "|", "1", "|", "2", "|">>] >>

ManualDiagram == <<
      [label |-> "T", body |-> <<"|", " ", " ", " ", "0", " ", " ", " ", " ", "|">>],
      [label |-> "", body |-> <<" ", " ", " ", " ", " ", " ", " ", " ", " ", " ">>],
      [label |-> "q0", body |-> <<"-", "R", "z", "(", "1", ".", "5", "7", ")", "-">>],
      [label |-> "", body |-> <<" ", " ", " ", " ", " ", " ", " ", " ", " ", " ">>],
      [label |-> "q1", body |-> <<"-", "C", "-", "-", "-", "-", "-", "-", "-", "-">>],
      [label |-> "", body |-> <<" ", "|", " ", " ", " ", " ", " ", " ", " ", " ">>],
      [label |-> "q2", body |-> <<"-", "X", "-", "-", "-", "-", "-", "-", "-", "-">>],
      [label |-> "", body |-> <<" ", " ", " ", " ", " ", " ", " ", " ", " ", " ">>],
      [label |-> "q3", body |-> <<"-", "X", "-", "-", "-", "-", "-", "-", "-", "-">>],
      [label |-> "", body |-> <<>>],
      [label |-> "T", body |-> <<"|", " ", " ", " ", "0", " ", " ", " ", " ", "|">>] >>

\* Reading a diagram: the header line gives the time slices, the line of a
\* qubit its gate symbols from left to right.
Header(d) == d[CHOOSE i \in DOMAIN d : d[i].label = "T"].body
Row(d, q) == d[CHOOSE i \in DOMAIN d : d[i].label = "q" \o ToString(q)].body

\* the columns where a gate symbol starts ("-" is wire, "|" a control link)
SymbolStarts(row) ==
    {col \in DOMAIN row :
        /\ row[col] \notin {"-", "|"}
        /\ col = 1 \/ row[col - 1] \in {"-", "|"}}

NthSmallest(S, n) == CHOOSE v \in S : Cardinality({w \in S : w <= v}) = n

Digit(ch) == CHOOSE n \in 0..9 : ToString(n) = ch

\* the label of the time slice a column lies in: the digit between the two
\* "|" separators around the column
SliceOfColumn(header, col) ==
    LET lo(i) == IF i < col THEN i ELSE col
        hi(i) == IF i < col THEN col ELSE i
        labels == {i \in DOMAIN header :
                      /\ header[i] \notin {" ", "|"}
                      /\ \A j \in lo(i)..hi(i) : header[j] # "|"}
    IN Digit(header[CHOOSE i \in labels : TRUE])

\* the time slices in which the diagram d draws the k-th gate of circuit c,
\* one per qubit of the gate
DiagramSlices(d, c, k) ==
    {SliceOfColumn(Header(d),
                   NthSmallest(SymbolStarts(Row(d, q)),
                               Cardinality({j \in 1..k : q \in GateQubits(c[j])}))) :
        q \in GateQubits(c[k])}

(***************************************************************************)
(* Recorded output: the compiled Quil programs.  An instruction is its     *)
(* mnemonic, its parameter, the physical qubits it acts on and, for        *)
(* DECLARE and MEASURE, the size or index of the readout register ro.      *)
(***************************************************************************)
I(op, param, qubits, ro) == [op |-> op, param |-> param, qubits |-> qubits, ro |-> ro]

RewiringCompiledProgram == <<
      I("DECLARE", "", <<>>, 3),
      I("PRAGMA", "PARTIAL", <<>>, -1),
      I("RESET", "", <<>>, -1),
      I("RZ", "pi", <<15>>, -1),
      I("RZ", "-pi/2", <<16>>, -1),
      I("RX", "-pi/2", <<16>>, -1),
      I("XY", "pi", <<16, 15>>, -1),
      I("RZ", "-pi/2", <<16>>, -1),
      I("RX", "-pi/2", <<16>>, -1),
      I("RZ", "pi/2", <<16>>, -1),
      I("XY", "pi", <<16, 15>>, -1),
      I("RZ", "-pi/2", <<1>>, -1),
      I("RX", "pi/2", <<1>>, -1),
      I("CZ", "", <<1, 16>>, -1),
      I("RX", "-pi/2", <<1>>, -1),
      I("RZ", "pi/2", <<1>>, -1),
      I("RX", "-pi/2", <<15>>, -1),
      I("RZ", "pi", <<16>>, -1),
      I("MEASURE", "", <<1>>, 2),
      I("MEASURE", "", <<15>>, 1),
      I("MEASURE", "", <<16>>, 0) >>

ManualCompiledProgram == <<
      I("DECLARE", "", <<>>, 4),
      I("PRAGMA", "NAIVE", <<>>, -1),
      I("RESET", "", <<>>, -1),
      I("RZ", "pi/2", <<1>>, -1),
      I("RZ", "pi", <<2>>, -1),
      I("XY", "pi", <<1, 2>>, -1),
      I("RZ", "-pi/2", <<1>>, -1),
      I("RX", "-pi/2", <<1>>, -1),
      I("RZ", "pi/2", <<1>>, -1),
      I("XY", "pi", <<1, 2>>, -1),
      I("RZ", "pi/2", <<0>>, -1),
      I("RX", "-pi/2", <<2>>, -1),
      I("RX", "pi", <<3>>, -1),
      I("MEASURE", "", <<3>>, 3),
      I("MEASURE", "", <<2>>, 2),
      I("MEASURE", "", <<1>>, 1),
      I("MEASURE", "", <<0>>, 0) >>

(***************************************************************************)
(* Recorded output: the measurement counts, in printed order; a key is the *)
(* bitstring, one bit per measured qubit.                                  *)
(***************************************************************************)
RewiringCounts == <<
      [key |-> <<1, 1, 1>>, n |-> 27], [key |-> <<0, 0, 0>>, n |-> 16],
      [key |-> <<1, 1, 0>>, n |-> 13], [key |-> <<0, 1, 0>>, n |-> 13],
      [key |-> <<1, 0, 0>>, n |-> 9], [key |-> <<1, 0, 1>>, n |-> 9],
      [key |-> <<0, 0, 1>>, n |-> 7], [key |-> <<0, 1, 1>>, n |-> 6] >>

ManualCounts == <<
      [key |-> <<0, 0, 0, 1>>, n |-> 48], [key |-> <<0, 1, 0, 1>>, n |-> 20],
      [key |-> <<0, 1, 1, 1>>, n |-> 14], [key |-> <<0, 0, 0, 0>>, n |-> 5],
      [key |-> <<1, 0, 0, 1>>, n |-> 3], [key |-> <<0, 0, 1, 1>>, n |-> 3],
      [key |-> <<0, 1, 1, 0>>, n |-> 3], [key |-> <<0, 1, 0, 0>>, n |-> 2],
      [key |-> <<1, 0, 0, 0>>, n |-> 1], [key |-> <<0, 0, 1, 0>>, n |-> 1] >>

IonQCounts == <<
      [key |-> <<1, 0, 1>>, n |-> 57], [key |-> <<0, 0, 0>>, n |-> 40],
      [key |-> <<1, 0, 0>>, n |-> 1], [key |-> <<1, 1, 0>>, n |-> 1],
      [key |-> <<0, 0, 1>>, n |-> 1] >>

\* nothing is recorded for this submission
Unrecorded == <<>>

(***************************************************************************)
(* The SDK and the service behind it.                                      *)
(***************************************************************************)
TaskNames == {"rigetti_rewiring", "rigetti_task", "ionq_task"}

States == {"NONE", "QUEUED", "RUNNING", "COMPLETED", "FAILED"}
Terminal == {"COMPLETED", "FAILED"}

NoTask == [state |-> "NONE", circuit |-> <<>>, disable |-> FALSE, device |-> "",
           shots |-> 0, mapping |-> <<>>, program |-> <<>>, counts |-> <<>>]

NoOutput == [diagram |-> <<>>, status |-> "NONE", result |-> FALSE,
             counts |-> <<>>, program |-> <<>>]

\* "all the gates in the circuit satisfy the topological constraints of the
\* device": every qubit and every qubit pair exists in the connectivity graph
TopologyOK(c) ==
    /\ \A q \in CircuitQubits(c) : IsNode(q)
    /\ \A p \in TwoQubitPairs(c) : IsEdge(p[1], p[2])

\* device.run that checks the qubits of a circuit but not its couplers
RunAccepts_qubitsOnly(c, disable) ==
    disable => \A q \in CircuitQubits(c) : IsNode(q)

\* device.run raises for a manually allocated circuit that breaks the topology
RunAccepts(c, disable) == disable => TopologyOK(c)

\* an allocation that ignores disable_qubit_rewiring
Allocation_ignoresFlag(c, disable, dev) ==
    IF dev = Aspen8 /\ c = GHZCircuit THEN (0 :> 16 @@ 2 :> 15 @@ 4 :> 1)
    ELSE Unrecorded

\* abstract qubit |-> physical qubit.  With rewiring disabled qubit i is qubit i;
\* otherwise the compiler chooses, and the notebook records its choice for the
\* GHZ circuit on Aspen-8 only.
Allocation(c, disable, dev) ==
    IF disable THEN [q \in CircuitQubits(c) |-> q]
    ELSE IF dev = Aspen8 /\ c = GHZCircuit THEN (0 :> 16 @@ 2 :> 15 @@ 4 :> 1)
    ELSE Unrecorded

\* a compiler that routes the second CNOT onto the uncoupled pair 1, 15
CompiledProgram_uncoupled(c, disable, dev) ==
    IF dev = Aspen8 /\ ~disable /\ c = GHZCircuit
    THEN [RewiringCompiledProgram EXCEPT ![14] = I("CZ", "", <<1, 15>>, -1)]
    ELSE IF dev = Aspen8 /\ disable /\ c = ManualCircuit THEN ManualCompiledProgram
    ELSE Unrecorded

\* result.additional_metadata.rigettiMetadata.compiledProgram, where recorded
CompiledProgram(c, disable, dev) ==
    IF dev = Aspen8 /\ ~disable /\ c = GHZCircuit THEN RewiringCompiledProgram
    ELSE IF dev = Aspen8 /\ disable /\ c = ManualCircuit THEN ManualCompiledProgram
    ELSE Unrecorded

\* a result store that hands the two Rigetti tasks each other's counts
MeasurementCounts_crossed(c, disable, dev) ==
    IF dev = Aspen8 /\ ~disable /\ c = GHZCircuit THEN ManualCounts
    ELSE IF dev = Aspen8 /\ disable /\ c = ManualCircuit THEN RewiringCounts
    ELSE IF dev = IonQ /\ ~disable /\ c = IonQCircuit THEN IonQCounts
    ELSE Unrecorded

\* result.measurement_counts, where recorded
MeasurementCounts(c, disable, dev) ==
    IF dev = Aspen8 /\ ~disable /\ c = GHZCircuit THEN RewiringCounts
    ELSE IF dev = Aspen8 /\ disable /\ c = ManualCircuit THEN ManualCounts
    ELSE IF dev = IonQ /\ ~disable /\ c = IonQCircuit THEN IonQCounts
    ELSE Unrecorded

\* print(circuit), where recorded
AsciiDiagram(c) ==
    IF c = GHZCircuit THEN GHZDiagram
    ELSE IF c = ManualCircuit THEN ManualDiagram
    ELSE Unrecorded

\* the service takes a queued task up
ServiceStart(t) ==
    /\ tasks[t].state = "QUEUED"
    /\ tasks' = [tasks EXCEPT ![t].state = "RUNNING"]
    /\ UNCHANGED <<pc, raised, device, circuit, stdout, runLog>>

\* the service finishes a running task and stores its result
ServiceComplete(t) ==
    /\ tasks[t].state = "RUNNING"
    /\ LET k == tasks[t] IN
       tasks' = [tasks EXCEPT ![t] =
                   [k EXCEPT !.state = "COMPLETED",
                             !.mapping = Allocation(k.circuit, k.disable, k.device),
                             !.program = CompiledProgram(k.circuit, k.disable, k.device),
                             !.counts = MeasurementCounts(k.circuit, k.disable, k.device)]]
    /\ UNCHANGED <<pc, raised, device, circuit, stdout, runLog>>

\* a service that puts a running task back in the queue instead of failing it
ServiceFail_requeue(t) ==
    /\ tasks[t].state = "RUNNING"
    /\ tasks' = [tasks EXCEPT ![t].state = "QUEUED"]
    /\ UNCHANGED <<pc, raised, device, circuit, stdout, runLog>>

\* the service gives a running task up
ServiceFail(t) ==
    /\ tasks[t].state = "RUNNING"
    /\ tasks' = [tasks EXCEPT ![t].state = "FAILED"]
    /\ UNCHANGED <<pc, raised, device, circuit, stdout, runLog>>

\* task.result() blocks until the task has a final state
ResultReady(t) == tasks[t].state \in Terminal

(***************************************************************************)
(* The cells of the notebook, top to bottom.                               *)
(***************************************************************************)
Done == 13

\* from braket.aws import AwsDevice ...
CellImports ==
    /\ pc = 1 /\ raised = ""
    /\ pc' = 2
    /\ UNCHANGED <<raised, device, circuit, tasks, stdout, runLog>>

\* s3_folder = (my_bucket, my_prefix)
CellS3Folder ==
    /\ pc = 2 /\ raised = ""
    /\ pc' = 3
    /\ UNCHANGED <<raised, device, circuit, tasks, stdout, runLog>>

\* device = AwsDevice(".../rigetti/Aspen-8"); print connectivity graph
CellDevice ==
    /\ pc = 3 /\ raised = ""
    /\ device' = Aspen8
    /\ pc' = 4
    /\ UNCHANGED <<raised, circuit, tasks, stdout, runLog>>

\* a run cell that catches the exception and submits the circuit again
RunCell_retry(cell, t, c, dev, disable, printIt) ==
    /\ pc = cell /\ raised = ""
    /\ circuit' = c
    /\ device' = dev
    /\ stdout' = [stdout EXCEPT ![t].diagram = IF printIt THEN AsciiDiagram(c) ELSE <<>>]
    /\ RunAccepts(c, disable)
    /\ tasks' = [tasks EXCEPT ![t] =
                   [NoTask EXCEPT !.state = "QUEUED", !.circuit = c,
                                  !.disable = disable, !.device = dev,
                                  !.shots = Shots]]
    /\ pc' = cell + 1
    /\ UNCHANGED raised
    /\ \/ runLog' = Append(runLog, [task |-> t, circuit |-> c, disable |-> disable])
       \/ \* the first call raised and the second went through
          runLog' = runLog \o << [task |-> t, circuit |-> c, disable |-> disable],
                                 [task |-> t, circuit |-> c, disable |-> disable] >>

\* a cell that builds circuit c, prints it when asked, and calls
\* t = dev.run(c, s3_folder, shots=100, disable_qubit_rewiring=disable)
RunCell(cell, t, c, dev, disable, printIt) ==
    /\ pc = cell /\ raised = ""
    /\ circuit' = c
    /\ device' = dev
    /\ stdout' = [stdout EXCEPT ![t].diagram = IF printIt THEN AsciiDiagram(c) ELSE <<>>]
    /\ runLog' = Append(runLog, [task |-> t, circuit |-> c, disable |-> disable])
    /\ \/ /\ RunAccepts(c, disable)
          /\ tasks' = [tasks EXCEPT ![t] =
                         [NoTask EXCEPT !.state = "QUEUED", !.circuit = c,
                                        !.disable = disable, !.device = dev,
                                        !.shots = Shots]]
          /\ pc' = cell + 1
          /\ UNCHANGED raised
       \/ \* the call raises: the topology check, or the queue or the network
          /\ raised' = IF RunAccepts(c, disable) THEN "ServiceError"
                        ELSE "ValidationException"
          /\ UNCHANGED <<pc, tasks>>

CellRunRewiring == RunCell(4, "rigetti_rewiring", GHZCircuit, device, FALSE, TRUE)

\* the manual-allocation run cell placed above the result cell of the
\* first task
CellRunManual_early == RunCell(6, "rigetti_task", ManualCircuit, device, TRUE, TRUE)

CellRunManual == RunCell(7, "rigetti_task", ManualCircuit, device, TRUE, TRUE)

CellRunIonQ == RunCell(10, "ionq_task", IonQCircuit, IonQ, FALSE, FALSE)

\* a status cell that prints the status the notebook records
StateCell_recorded(cell, t) ==
    /\ pc = cell /\ raised = ""
    /\ stdout' = [stdout EXCEPT ![t].status = "COMPLETED"]
    /\ pc' = cell + 1
    /\ UNCHANGED <<raised, device, circuit, tasks, runLog>>

\* print("Status of task:", t.state())
StateCell(cell, t) ==
    /\ pc = cell /\ raised = ""
    /\ stdout' = [stdout EXCEPT ![t].status = tasks[t].state]
    /\ pc' = cell + 1
    /\ UNCHANGED <<raised, device, circuit, tasks, runLog>>

\* a result cell that reads the counts without waiting for the task
ResultCell_noWait(cell, t, printProgram) ==
    /\ pc = cell /\ raised = ""
    /\ tasks[t].state # "NONE"
    /\ stdout' = [stdout EXCEPT ![t].result = TRUE,
                                ![t].counts = tasks[t].counts,
                                ![t].program = IF printProgram THEN tasks[t].program
                                               ELSE <<>>]
    /\ pc' = cell + 1
    /\ UNCHANGED <<raised, device, circuit, tasks, runLog>>

\* result = t.result(); print counts (and the compiled program, on Rigetti)
ResultCell(cell, t, printProgram) ==
    /\ pc = cell /\ raised = ""
    /\ ResultReady(t)
    /\ \/ /\ tasks[t].state = "COMPLETED"
          /\ stdout' = [stdout EXCEPT ![t].result = TRUE,
                                      ![t].counts = tasks[t].counts,
                                      ![t].program = IF printProgram THEN tasks[t].program
                                                     ELSE <<>>]
          /\ pc' = cell + 1
          /\ UNCHANGED raised
       \/ \* no result for a failed task: the cell raises
          /\ tasks[t].state = "FAILED"
          /\ raised' = "TaskFailed"
          /\ UNCHANGED <<pc, stdout>>
    /\ UNCHANGED <<device, circuit, tasks, runLog>>

CellStateRewiring == StateCell(5, "rigetti_rewiring")
CellResultRewiring == ResultCell(6, "rigetti_rewiring", TRUE)
CellStateManual == StateCell(8, "rigetti_task")
CellResultManual == ResultCell(9, "rigetti_task", TRUE)
CellStateIonQ == StateCell(11, "ionq_task")
CellResultIonQ == ResultCell(12, "ionq_task", FALSE)

(***************************************************************************)
(* Spec: the notebook as written, run top to bottom.                       *)
(***************************************************************************)
Init ==
    /\ pc = 1
    /\ raised = ""
    /\ device = ""
    /\ circuit = Circuit
    /\ tasks = [t \in TaskNames |-> NoTask]
    /\ stdout = [t \in TaskNames |-> NoOutput]
    /\ runLog = <<>>

Next ==
    \/ CellImports
    \/ CellS3Folder
    \/ CellDevice
    \/ CellRunRewiring
    \/ CellStateRewiring
    \/ CellResultRewiring
    \/ CellRunManual
    \/ CellStateManual
    \/ CellResultManual
    \/ CellRunIonQ
    \/ CellStateIonQ
    \/ CellResultIonQ
    \/ \E t \in TaskNames : ServiceStart(t)
    \/ \E t \in TaskNames : ServiceComplete(t)
    \/ \E t \in TaskNames : ServiceFail(t)

Spec == Init /\ [][Next]_vars

(***************************************************************************)
(* SpecRun: the manual-allocation cells on any input circuit, to exercise  *)
(* device.run(..., disable_qubit_rewiring=True) beyond the one circuit the *)
(* notebook submits.                                                       *)
(***************************************************************************)
PoolGates ==
    {Gate("x", <<q>>, "") : q \in QubitPool}
    \cup {Gate("cnot", <<p[1], p[2]>>, "") :
            p \in {pr \in QubitPool \X QubitPool : pr[1] # pr[2]}}

RECURSIVE CircuitsUpTo(_)
CircuitsUpTo(n) ==
    IF n = 0 THEN {Circuit}
    ELSE LET shorter == CircuitsUpTo(n - 1)
         IN shorter \cup {Append(c, g) : c \in shorter, g \in PoolGates}

InputCircuits ==
    (CircuitsUpTo(MaxGates) \ {Circuit}) \cup {GHZCircuit, ManualCircuit, IonQCircuit}

InitRun ==
    /\ pc = 7
    /\ raised = ""
    /\ device = Aspen8
    /\ circuit \in InputCircuits
    /\ tasks = [t \in TaskNames |-> NoTask]
    /\ stdout = [t \in TaskNames |-> NoOutput]
    /\ runLog = <<>>

CellRunInput == RunCell(7, "rigetti_task", circuit, device, TRUE, TRUE)

NextRun ==
    \/ CellRunInput
    \/ CellStateManual
    \/ CellResultManual
    \/ ServiceStart("rigetti_task")
    \/ ServiceComplete("rigetti_task")
    \/ ServiceFail("rigetti_task")

SpecRun == InitRun /\ [][NextRun]_vars

(***************************************************************************)
(* Properties.                                                             *)
(***************************************************************************)
InstructionQubits(ins) == {ins.qubits[j] : j \in DOMAIN ins.qubits}
ProgramQubits(prog) == UNION {InstructionQubits(prog[i]) : i \in DOMAIN prog}
Measures(prog) == {i \in DOMAIN prog : prog[i].op = "MEASURE"}
Range(f) == {f[a] : a \in DOMAIN f}

\* C1: a completed task that was submitted with disable_qubit_rewiring=True
\* for a circuit that satisfies the topology maps every abstract qubit i to
\* physical qubit i and every qubit pair (i, j) to the coupler (i, j); every
\* instruction of its compiled program acts on qubits of the circuit only,
\* and qubit i is measured into ro[i].
C1_ManualAllocationIsIdentity ==
    \A t \in TaskNames :
        LET k == tasks[t]
            qs == CircuitQubits(k.circuit)
        IN (k.state = "COMPLETED" /\ k.disable /\ TopologyOK(k.circuit)) =>
              /\ DOMAIN k.mapping = qs
              /\ \A q \in qs : k.mapping[q] = q
              /\ \A p \in TwoQubitPairs(k.circuit) :
                    /\ <<k.mapping[p[1]], k.mapping[p[2]]>> = p
                    /\ IsEdge(k.mapping[p[1]], k.mapping[p[2]])
              /\ ProgramQubits(k.program) \subseteq qs
              /\ \A i \in Measures(k.program) :
                    k.program[i].ro = k.program[i].qubits[1]
              /\ k.program # Unrecorded =>
                    \A q \in qs : \E i \in Measures(k.program) :
                        k.program[i].qubits = <<q>> /\ k.program[i].ro = q

\* the notebook's manually allocated circuit has completed and carries its
\* compiled program
C1_Witness ==
    /\ tasks["rigetti_task"].state = "COMPLETED"
    /\ tasks["rigetti_task"].disable
    /\ tasks["rigetti_task"].circuit = ManualCircuit
    /\ tasks["rigetti_task"].program # Unrecorded

\* C2: a device.run call with disable_qubit_rewiring=True for a circuit that
\* uses a qubit that is no node of the connectivity graph, or a two-qubit
\* gate on a pair that is no edge of it, raises: no task comes of it, so none
\* completes, and no measurement result is printed for it.
C2_ManualAllocationRaises ==
    \A i \in DOMAIN runLog :
        LET e == runLog[i] IN
        (e.disable /\ ~TopologyOK(e.circuit)) =>
            /\ raised # ""
            /\ tasks[e.task].state = "NONE"
            /\ ~stdout[e.task].result
            /\ stdout[e.task].counts = <<>>
            /\ stdout[e.task].status = "NONE"

\* a circuit with a gate on 8, which is no qubit of the device, and a CNOT on
\* the uncoupled pair (0, 1) was submitted with rewiring disabled, and the
\* call raised
C2_Witness ==
    /\ Len(runLog) = 1
    /\ runLog[1].disable
    /\ runLog[1].circuit = x(cnot(Circuit, 0, 1), 8)
    /\ raised = "ValidationException"

\* C3: the GHZ circuit on 0, 2, 4, whose CNOT pairs are not coupled, is
\* accepted when submitted without disable_qubit_rewiring; once completed its
\* abstract qubits 0, 2, 4 are mapped to the distinct device qubits 16, 15, 1,
\* the compiled program acts on exactly those qubits and measures them into
\* ro[0], ro[1], ro[2] in that order, and each of its two-qubit instructions
\* acts on a coupler of the device.
C3_AutomaticAllocationRewires ==
    LET k == tasks["rigetti_rewiring"]
        qs == CircuitQubits(k.circuit)
    IN k.state = "COMPLETED" =>
          /\ ~k.disable
          /\ ~TopologyOK(k.circuit)
          /\ DOMAIN k.mapping = qs
          /\ Cardinality(Range(k.mapping)) = Cardinality(qs)
          /\ \A q \in qs : IsNode(k.mapping[q])
          /\ k.mapping = (0 :> 16 @@ 2 :> 15 @@ 4 :> 1)
          /\ ProgramQubits(k.program) = Range(k.mapping)
          /\ \A q \in qs : \E i \in Measures(k.program) :
                /\ k.program[i].qubits = <<k.mapping[q]>>
                /\ k.program[i].ro = Cardinality({r \in qs : r < q})
          /\ \A i \in DOMAIN k.program :
                Len(k.program[i].qubits) = 2 =>
                    IsEdge(k.program[i].qubits[1], k.program[i].qubits[2])

\* the automatically allocated GHZ task has completed
C3_Witness ==
    /\ tasks["rigetti_rewiring"].state = "COMPLETED"
    /\ tasks["rigetti_rewiring"].circuit = GHZCircuit
    /\ \E i \in DOMAIN tasks["rigetti_rewiring"].program :
          Len(tasks["rigetti_rewiring"].program[i].qubits) = 2

\* C4: the state of a task only moves forward, from queued to running and
\* from running to completed or failed; completed and failed are final.
C4_LifecycleStep(t) ==
    \/ tasks'[t].state = tasks[t].state
    \/ <<tasks[t].state, tasks'[t].state>> \in
          { <<"NONE", "QUEUED">>, <<"QUEUED", "RUNNING">>,
            <<"RUNNING", "COMPLETED">>, <<"RUNNING", "FAILED">> }

C4_TaskLifecycle == [][\A t \in TaskNames : C4_LifecycleStep(t)]_vars

\* one task has completed and a later one has failed
C4_Witness ==
    /\ tasks["rigetti_rewiring"].state = "COMPLETED"
    /\ tasks["rigetti_task"].state = "FAILED"

\* C5: measurement counts are printed for a task only once result() has
\* returned for it, which is only after the task has completed.
C5_ResultAfterCompletion ==
    \A t \in TaskNames :
        (stdout[t].result \/ stdout[t].counts # <<>>) => tasks[t].state = "COMPLETED"

\* the counts of all three tasks have been printed
C5_Witness ==
    \A t \in TaskNames : stdout[t].result /\ stdout[t].counts # <<>>

\* C6 as stated: whenever a status cell has printed, it has printed COMPLETED.
C6_StatusIsCompleted ==
    \A t \in TaskNames : stdout[t].status # "NONE" => stdout[t].status = "COMPLETED"

Rank(st) ==
    CASE st = "NONE" -> 0 [] st = "QUEUED" -> 1 [] st = "RUNNING" -> 2
      [] st \in Terminal -> 3

\* C6, amended: a status cell prints the state the task is in when the cell
\* runs, one of QUEUED, RUNNING, COMPLETED, FAILED; it prints COMPLETED only
\* for a task that has completed, and the task is never behind what was
\* printed.
C6_StatusIsCurrentState ==
    \A t \in TaskNames :
        stdout[t].status # "NONE" =>
            /\ stdout[t].status \in {"QUEUED", "RUNNING", "COMPLETED", "FAILED"}
            /\ Rank(stdout[t].status) <= Rank(tasks[t].state)
            /\ stdout[t].status \in Terminal => stdout[t].status = tasks[t].state

\* one status cell printed COMPLETED, the next one QUEUED
C6_Witness ==
    /\ stdout["rigetti_rewiring"].status = "COMPLETED"
    /\ stdout["rigetti_task"].status = "QUEUED"

ResultCellOf(t) ==
    CASE t = "rigetti_rewiring" -> 6 [] t = "rigetti_task" -> 9 [] t = "ionq_task" -> 12

\* C7, in every state: device.run is called at most three times, once per
\* circuit and in the order of the cells; a notebook that has run to its end
\* has made all three calls; after a call that raised no task exists for it;
\* for a failed task no counts are printed and no later cell has run.
C7_State ==
    /\ Len(runLog) <= 3
    /\ \A i \in DOMAIN runLog :
          runLog[i] = CASE i = 1 -> [task |-> "rigetti_rewiring", circuit |-> GHZCircuit,
                                     disable |-> FALSE]
                        [] i = 2 -> [task |-> "rigetti_task", circuit |-> ManualCircuit,
                                     disable |-> TRUE]
                        [] i = 3 -> [task |-> "ionq_task", circuit |-> IonQCircuit,
                                     disable |-> FALSE]
    /\ pc = Done => Len(runLog) = 3 /\ raised = ""
    /\ \A t \in TaskNames :
          tasks[t].state = "NONE" =>
              stdout[t].status = "NONE" /\ ~stdout[t].result
    /\ \A t \in TaskNames :
          tasks[t].state = "FAILED" =>
              /\ pc <= ResultCellOf(t)
              /\ ~stdout[t].result
              /\ stdout[t].counts = <<>>
              /\ runLog[Len(runLog)].task = t
    /\ raised # "" =>
          \/ tasks[runLog[Len(runLog)].task].state = "NONE"
          \/ tasks[runLog[Len(runLog)].task].state = "FAILED"

\* C7: the notebook submits each circuit exactly once, and once a call has
\* raised it runs no further cell: nothing more is submitted or printed.
C7_NoRetryNoRecovery ==
    /\ []C7_State
    /\ [][raised # "" => UNCHANGED <<pc, raised, device, circuit, stdout, runLog>>]_vars

\* the notebook stopped at the result cell of the failed second task
C7_Witness ==
    /\ raised = "TaskFailed"
    /\ tasks["rigetti_task"].state = "FAILED"
    /\ Len(runLog) = 2

\* C8: the circuit submitted as the GHZ example acts on the qubits 0, 2, 4
\* with CNOTs on (0, 2) and (0, 4), and no two of its qubits are adjacent in
\* the connectivity graph of Aspen-8.
C8_GHZQubitsNotConnected ==
    \A i \in DOMAIN runLog :
        LET c == runLog[i].circuit IN
        runLog[i].task = "rigetti_rewiring" =>
            /\ CircuitQubits(c) = {0, 2, 4}
            /\ TwoQubitPairs(c) = {<<0, 2>>, <<0, 4>>}
            /\ \A a \in CircuitQubits(c) : IsNode(a)
            /\ \A a \in CircuitQubits(c) : \A b \in CircuitQubits(c) : ~IsEdge(a, b)

\* the GHZ circuit has been submitted to Aspen-8 and accepted
C8_Witness ==
    /\ Len(runLog) = 1
    /\ runLog[1].task = "rigetti_rewiring"
    /\ tasks["rigetti_rewiring"].state = "QUEUED"
    /\ tasks["rigetti_rewiring"].device = Aspen8

\* C9: the manually allocated circuit acts on the qubits 0, 1, 2, 3, all nodes
\* of the connectivity graph, and its only two-qubit pair (1, 2) is an edge,
\* so its submission with disable_qubit_rewiring=True is never rejected for
\* its topology.
C9_ManualCircuitFitsTopology ==
    /\ raised # "ValidationException"
    /\ \A i \in DOMAIN runLog :
          LET c == runLog[i].circuit IN
          runLog[i].task = "rigetti_task" =>
              /\ runLog[i].disable
              /\ CircuitQubits(c) = {0, 1, 2, 3}
              /\ \A q \in CircuitQubits(c) : IsNode(q)
              /\ TwoQubitPairs(c) = {<<1, 2>>}
              /\ \A p \in TwoQubitPairs(c) : IsEdge(p[1], p[2])
              /\ RunAccepts(c, runLog[i].disable)

\* the manually allocated circuit has been accepted by device.run
C9_Witness ==
    /\ Len(runLog) = 2
    /\ runLog[2].disable
    /\ tasks["rigetti_task"].state = "QUEUED"
    /\ tasks["rigetti_task"].circuit = ManualCircuit

\* the earliest time slice later than every earlier gate of c that shares a
\* qubit with its k-th gate
RECURSIVE EarliestSlice(_, _)
EarliestSlice(c, k) ==
    LET before == {j \in 1..(k - 1) : GateQubits(c[j]) \cap GateQubits(c[k]) # {}}
        slices == {EarliestSlice(c, j) : j \in before}
    IN IF before = {} THEN 0
       ELSE 1 + CHOOSE m \in slices : \A n \in slices : n <= m

GateList(c) == [k \in DOMAIN c |-> <<c[k].name, c[k].targets>>]

\* C10: a submitted circuit holds its gates in the order of the builder calls,
\* and a printed diagram draws each gate in the earliest time slice later
\* than every earlier gate sharing one of its qubits: slices 0, 1, 2 for
\* h(0).cnot(0,2).cnot(0,4) and slice 0 for all of rz(0).cnot(1,2).x(3).
C10_GatesInCallOrderAndEarliestSlice ==
    \A i \in DOMAIN runLog :
        LET c == runLog[i].circuit
            t == runLog[i].task
            d == stdout[t].diagram
        IN /\ t = "rigetti_rewiring" =>
                 /\ GateList(c) = << <<"h", <<0>> >>, <<"cnot", <<0, 2>> >>,
                                     <<"cnot", <<0, 4>> >> >>
                 /\ [k \in DOMAIN c |-> DiagramSlices(d, c, k)] = <<{0}, {1}, {2}>>
           /\ t = "rigetti_task" =>
                 /\ GateList(c) = << <<"rz", <<0>> >>, <<"cnot", <<1, 2>> >>,
                                     <<"x", <<3>> >> >>
                 /\ [k \in DOMAIN c |-> DiagramSlices(d, c, k)] = <<{0}, {0}, {0}>>
           /\ t = "ionq_task" =>
                 GateList(c) = << <<"h", <<0>> >>, <<"cnot", <<0, 2>> >>,
                                  <<"rz", <<1>> >> >>
           /\ d # Unrecorded =>
                 \A k \in DOMAIN c : DiagramSlices(d, c, k) = {EarliestSlice(c, k)}

\* both diagrams have been printed
C10_Witness ==
    /\ stdout["rigetti_rewiring"].diagram = GHZDiagram
    /\ stdout["rigetti_task"].diagram = ManualDiagram
    /\ Len(runLog) >= 2

Outstanding == {t \in TaskNames : tasks[t].state \in {"QUEUED", "RUNNING"}}
Submitted(t) == \E i \in DOMAIN runLog : runLog[i].task = t

\* C11: with the cells run in notebook order at most one task is outstanding
\* (queued or running) at any time; when device.run is called for a task,
\* result() has returned for every task submitted before it; and state() and
\* result() have printed for a task handle only after the device.run call
\* that created it.
C11_OneTaskAtATime ==
    /\ Cardinality(Outstanding) <= 1
    /\ \A i \in DOMAIN runLog : \A j \in 1..(i - 1) :
          /\ stdout[runLog[j].task].result
          /\ tasks[runLog[j].task].state = "COMPLETED"
          /\ runLog[j].task # runLog[i].task
    /\ \A t \in TaskNames :
          (stdout[t].status # "NONE" \/ stdout[t].result) =>
              Submitted(t) /\ tasks[t].state # "NONE"
    /\ \A t \in TaskNames : ~Submitted(t) => tasks[t].state = "NONE"

\* the third task is running after the results of the first two were printed
C11_Witness ==
    /\ Len(runLog) = 3
    /\ Outstanding = {"ionq_task"}
    /\ tasks["ionq_task"].state = "RUNNING"
    /\ stdout["rigetti_rewiring"].result
    /\ stdout["rigetti_task"].result

RECURSIVE SumCounts(_)
SumCounts(counts) ==
    IF counts = <<>> THEN 0 ELSE Head(counts).n + SumCounts(Tail(counts))

\* C12: for every completed task the measurement counts sum to the shots of
\* the submission (100), every key is a bitstring with one bit per distinct
\* qubit of the submitted circuit (3, 4 and 3 bits for the three tasks), and
\* the counts a result cell prints are those of its task.
C12_CountsMatchSubmission ==
    \A t \in TaskNames :
        LET k == tasks[t] IN
        k.state = "COMPLETED" =>
            /\ k.shots = 100
            /\ SumCounts(k.counts) = k.shots
            /\ \A i \in DOMAIN k.counts :
                  /\ Len(k.counts[i].key) = Cardinality(CircuitQubits(k.circuit))
                  /\ \A b \in DOMAIN k.counts[i].key : k.counts[i].key[b] \in {0, 1}
                  /\ k.counts[i].n > 0
                  /\ \A j \in DOMAIN k.counts :
                        k.counts[j].key = k.counts[i].key => j = i
            /\ Cardinality(CircuitQubits(k.circuit)) =
                  CASE t = "rigetti_rewiring" -> 3 [] t = "rigetti_task" -> 4
                    [] t = "ionq_task" -> 3
            /\ stdout[t].result => stdout[t].counts = k.counts

\* all three tasks have completed and their counts have been printed
C12_Witness ==
    /\ pc = Done
    /\ \A t \in TaskNames :
          /\ tasks[t].state = "COMPLETED"
          /\ stdout[t].counts # <<>>
          /\ SumCounts(stdout[t].counts) = Shots

====
